---------------------------- MODULE Spec2Model ----------------------------
(***************************************************************************)
(* Hot stage system: the thermal process simulator (TemperatureSimulator)  *)
(* and its CSV data logger (DataLogger).                                   *)
(*                                                                         *)
(* Temperatures are fixed-point numbers in tenths of a degree Celsius:     *)
(* 25.0 degrees is 250, the 0.5 degree band is 5, the tick noise           *)
(* uniform(-0.1, 0.1) ranges over -1..1 and the maintaining noise          *)
(* uniform(-0.3, 0.3) over -3..3.                                          *)
(***************************************************************************)
EXTENDS Integers, Sequences, FiniteSets, TLC

VARIABLES
    current_temp,      \* TemperatureSimulator._current_temp
    target_temp,       \* TemperatureSimulator._target_temp
    state,             \* TemperatureSimulator._state
    is_running,        \* TemperatureSimulator._is_running
    timer_active,      \* TemperatureSimulator._timer is active
    signals,           \* signals emitted by the last handler, in order
    lastOp,            \* history: the last operation that ran
    estopPhase,        \* history: progress of "reset() then start()" since
                       \* the last emergency_stop()
    pub_state,         \* history: <<s>> for the last state_changed(s) emitted
    pub_temp,          \* history: <<t>> for the last temperature_changed(t)
    set_point,         \* MainWindow._set_point
    log_is_logging,    \* DataLogger._is_logging
    log_file,          \* DataLogger._file (a file name, or None)
    log_file_handle,   \* DataLogger._file_handle (the open file, or None)
    log_csv_writer,    \* DataLogger._csv_writer (the file it writes, or None)
    log_timer_active,  \* DataLogger._timer is active
    log_snapshot,      \* DataLogger._current_temp, _target_temp, _state
    log_open_handles,  \* number of file objects opened and not yet closed
    fs,                \* the data directory: file name -> rows
    clock              \* wall clock, in units of 1/ClockPerSecond seconds

simVars == <<current_temp, target_temp, state, is_running, timer_active,
             signals, estopPhase, pub_state, pub_temp>>
logVars == <<log_is_logging, log_file, log_file_handle, log_csv_writer,
             log_timer_active, log_snapshot, log_open_handles, fs, clock>>
appVars == <<set_point>>
vars == <<simVars, logVars, appVars, lastOp>>

---------------------------------------------------------------------------
(* Config (src/utils/config.py), temperatures in tenths of a degree.       *)

MIN_TEMP == 0
MAX_TEMP == 4000
DEFAULT_TARGET_TEMP == 1000
TEMP_UPDATE_INTERVAL_MS == 100
\* HEATING_RATE and COOLING_RATE in tenths of a degree per second
HEATING_RATE == 20
COOLING_RATE == 10
AMBIENT_TEMP == 250

\* SystemState (src/core/simulator.py)
IDLE == "Idle"
HEATING == "Heating"
COOLING == "Cooling"
MAINTAINING == "Maintaining"
EMERGENCY_STOP == "Emergency Stop"
SystemState == {IDLE, HEATING, COOLING, MAINTAINING, EMERGENCY_STOP}

\* Python's None, for the logger's optional file fields
None == <<>>

Max(a, b) == IF a >= b THEN a ELSE b
Min(a, b) == IF a <= b THEN a ELSE b
Abs(x) == IF x < 0 THEN -x ELSE x

\* random.uniform(-0.1, 0.1): both endpoints can be drawn
Noise == -1 .. 1
\* random.uniform(-0.3, 0.3)
MaintainNoise == -3 .. 3

\* dt = TEMP_UPDATE_INTERVAL_MS / 1000.0, applied to a rate
PerTick(rate) == (rate * TEMP_UPDATE_INTERVAL_MS) \div 1000

\* Values a caller passes to the target_temp setter: below MIN_TEMP, inside
\* the range (the default, and the floor of current_temp), above MAX_TEMP.
TargetInputs ==
    {MIN_TEMP - 10, AMBIENT_TEMP - 10, DEFAULT_TARGET_TEMP, MAX_TEMP + 10}

StateChanged(s) == [sig |-> "state_changed", arg |-> s]
TemperatureChanged(t) == [sig |-> "temperature_changed", arg |-> t]

\* the argument of the last signal `name` among sigs, as <<arg>>; old if none
LastEmitted(sigs, name, old) ==
    LET idx == {i \in 1 .. Len(sigs) : sigs[i].sig = name} IN
      IF idx = {} THEN old
      ELSE <<sigs[CHOOSE i \in idx : \A j \in idx : j <= i].arg>>

\* what the connected slots have received once the handler's signals are out
Publish ==
    /\ pub_state' = LastEmitted(signals', "state_changed", pub_state)
    /\ pub_temp' = LastEmitted(signals', "temperature_changed", pub_temp)

---------------------------------------------------------------------------
(* TemperatureSimulator                                                    *)

\* mutant of ClampTarget: the upper limit is forgotten
ClampTargetNoUpper(value) == Max(MIN_TEMP, value)

\* target_temp setter: max(MIN_TEMP, min(value, MAX_TEMP))
ClampTarget(value) == Max(MIN_TEMP, Min(value, MAX_TEMP))

\* mutant of ClampCurrent: the lower limit is forgotten
ClampCurrentNoFloor(t) == Min(t, MAX_TEMP)

\* the clamp at the end of _update_temperature
ClampCurrent(t) == Max(AMBIENT_TEMP - 10, Min(t, MAX_TEMP))

\* mutant of SelectState: the maintaining band includes its edge
SelectStateInclusive(running, cur, tgt) ==
    IF ~running
    THEN IF cur > AMBIENT_TEMP + 10 THEN COOLING ELSE IDLE
    ELSE IF Abs(cur - tgt) <= 5 THEN MAINTAINING
         ELSE IF cur < tgt THEN HEATING
         ELSE COOLING

\* _update_state: the state selected from is_running and the temperatures
SelectState(running, cur, tgt) ==
    IF ~running
    THEN IF cur > AMBIENT_TEMP + 10 THEN COOLING ELSE IDLE
    ELSE IF Abs(cur - tgt) < 5 THEN MAINTAINING
         ELSE IF cur < tgt THEN HEATING
         ELSE COOLING

\* the effect of the target_temp setter on the simulator
SetTargetTempSim(value) ==
    /\ target_temp' = ClampTarget(value)
    /\ signals' = <<>>
    /\ Publish
    /\ UNCHANGED <<current_temp, state, is_running, timer_active, estopPhase>>

\* mutant of SetTargetTemp: the setter also re-selects the state
SetTargetTempUpdating(value) ==
    /\ target_temp' = ClampTarget(value)
    /\ state' = SelectState(is_running, current_temp, target_temp')
    /\ signals' = <<StateChanged(state')>>
    /\ Publish
    /\ lastOp' = "set_target_temp"
    /\ UNCHANGED <<current_temp, is_running, timer_active, estopPhase>>
    /\ UNCHANGED <<logVars, appVars>>

SetTargetTemp(value) ==
    /\ SetTargetTempSim(value)
    /\ lastOp' = "set_target_temp"
    /\ UNCHANGED <<logVars, appVars>>

\* the effect of start() on the simulator, tgt being _target_temp at the call
StartSim(tgt) ==
    /\ IF state = EMERGENCY_STOP
       THEN /\ signals' = <<>>
            /\ UNCHANGED <<state, is_running, timer_active, estopPhase>>
       ELSE /\ is_running' = TRUE
            /\ state' = SelectState(TRUE, current_temp, tgt)
            /\ signals' = <<StateChanged(state')>>
            /\ timer_active' = TRUE
            /\ estopPhase' = IF estopPhase = "reset" THEN "none" ELSE estopPhase
    /\ Publish
    /\ UNCHANGED current_temp

Start ==
    /\ lastOp' = "start"
    /\ StartSim(target_temp)
    /\ UNCHANGED target_temp
    /\ UNCHANGED <<logVars, appVars>>

\* the effect of stop() on the simulator
StopSim ==
    /\ is_running' = FALSE
    /\ state' = COOLING
    /\ signals' = <<StateChanged(COOLING)>>
    /\ Publish
    /\ UNCHANGED <<current_temp, target_temp, timer_active, estopPhase>>

\* mutant of Stop: the state is left as it was
StopKeepsState ==
    /\ is_running' = FALSE
    /\ signals' = <<StateChanged(state)>>
    /\ Publish
    /\ lastOp' = "stop"
    /\ UNCHANGED <<current_temp, target_temp, state, timer_active, estopPhase>>
    /\ UNCHANGED <<logVars, appVars>>

Stop ==
    /\ StopSim
    /\ lastOp' = "stop"
    /\ UNCHANGED <<logVars, appVars>>

\* mutant of EmergencyStop: the timer is not stopped
EmergencyStopTimerKept ==
    /\ is_running' = FALSE
    /\ state' = EMERGENCY_STOP
    /\ signals' = <<StateChanged(EMERGENCY_STOP)>>
    /\ Publish
    /\ lastOp' = "emergency_stop"
    /\ estopPhase' = "stopped"
    /\ UNCHANGED <<current_temp, target_temp, timer_active>>
    /\ UNCHANGED <<logVars, appVars>>

\* emergency_stop()
EmergencyStop ==
    /\ timer_active' = FALSE
    /\ is_running' = FALSE
    /\ state' = EMERGENCY_STOP
    /\ signals' = <<StateChanged(EMERGENCY_STOP)>>
    /\ Publish
    /\ lastOp' = "emergency_stop"
    /\ estopPhase' = "stopped"
    /\ UNCHANGED <<current_temp, target_temp>>
    /\ UNCHANGED <<logVars, appVars>>

\* mutant of Reset: the EMERGENCY_STOP test is dropped
ResetUnguarded ==
    /\ lastOp' = "reset"
    /\ state' = IDLE
    /\ signals' = <<StateChanged(IDLE)>>
    /\ Publish
    /\ estopPhase' = IF estopPhase = "stopped" THEN "reset" ELSE estopPhase
    /\ UNCHANGED <<current_temp, target_temp, is_running, timer_active>>
    /\ UNCHANGED <<logVars, appVars>>

Reset ==
    /\ lastOp' = "reset"
    /\ IF state = EMERGENCY_STOP
       THEN /\ state' = IDLE
            /\ signals' = <<StateChanged(IDLE)>>
       ELSE /\ signals' = <<>>
            /\ UNCHANGED state
    /\ Publish
    /\ estopPhase' = IF estopPhase = "stopped" THEN "reset" ELSE estopPhase
    /\ UNCHANGED <<current_temp, target_temp, is_running, timer_active>>
    /\ UNCHANGED <<logVars, appVars>>

\* mutant of HeatingStep: the switch to MAINTAINING is not emitted
HeatingStepSilent(noise) ==
    IF target_temp - current_temp > 5
    THEN [temp |-> current_temp + PerTick(HEATING_RATE) + noise,
          state |-> state, timer |-> timer_active, emit |-> <<>>]
    ELSE [temp |-> current_temp,
          state |-> MAINTAINING, timer |-> timer_active, emit |-> <<>>]

\* mutant of HeatingStep: heats until the target is reached, without the band
HeatingStepNoBand(noise) ==
    IF target_temp - current_temp > 0
    THEN [temp |-> current_temp + PerTick(HEATING_RATE) + noise,
          state |-> state, timer |-> timer_active, emit |-> <<>>]
    ELSE [temp |-> current_temp,
          state |-> MAINTAINING, timer |-> timer_active,
          emit |-> <<StateChanged(MAINTAINING)>>]

\* the HEATING branch of _update_temperature
HeatingStep(noise) ==
    IF target_temp - current_temp > 5
    THEN [temp |-> current_temp + PerTick(HEATING_RATE) + noise,
          state |-> state, timer |-> timer_active, emit |-> <<>>]
    ELSE [temp |-> current_temp,
          state |-> MAINTAINING, timer |-> timer_active,
          emit |-> <<StateChanged(MAINTAINING)>>]

\* mutant of MaintainingStep: the noise is added to the current temperature
MaintainingStepDrift(noise2) ==
    [temp |-> current_temp + noise2,
     state |-> state, timer |-> timer_active, emit |-> <<>>]

\* mutant of MaintainingStep: a target that moved away ends the maintaining
MaintainingStepRecheck(noise2) ==
    [temp |-> target_temp + noise2,
     state |-> IF Abs(current_temp - target_temp) < 5 THEN state ELSE HEATING,
     timer |-> timer_active, emit |-> <<>>]

\* the MAINTAINING branch of _update_temperature
MaintainingStep(noise2) ==
    [temp |-> target_temp + noise2,
     state |-> state, timer |-> timer_active, emit |-> <<>>]

\* mutant of CoolingStep: the ramp is added instead of subtracted
CoolingStepWrongSign(noise) ==
    IF current_temp > AMBIENT_TEMP + 5
    THEN [temp |-> current_temp + (PerTick(COOLING_RATE) + noise),
          state |-> state, timer |-> timer_active, emit |-> <<>>]
    ELSE [temp |-> AMBIENT_TEMP,
          state |-> IDLE, timer |-> FALSE,
          emit |-> <<StateChanged(IDLE)>>]

\* mutant of CoolingStep: the timer is left running on reaching ambient
CoolingStepTimerKept(noise) ==
    IF current_temp > AMBIENT_TEMP + 5
    THEN [temp |-> current_temp - (PerTick(COOLING_RATE) + noise),
          state |-> state, timer |-> timer_active, emit |-> <<>>]
    ELSE [temp |-> AMBIENT_TEMP,
          state |-> IDLE, timer |-> timer_active,
          emit |-> <<StateChanged(IDLE)>>]

\* the COOLING branch of _update_temperature
CoolingStep(noise) ==
    IF current_temp > AMBIENT_TEMP + 5
    THEN [temp |-> current_temp - (PerTick(COOLING_RATE) + noise),
          state |-> state, timer |-> timer_active, emit |-> <<>>]
    ELSE [temp |-> AMBIENT_TEMP,
          state |-> IDLE, timer |-> FALSE,
          emit |-> <<StateChanged(IDLE)>>]

\* the branch _update_temperature takes in the current state
TickStep(noise, noise2) ==
    CASE state = HEATING -> HeatingStep(noise)
      [] state = MAINTAINING -> MaintainingStep(noise2)
      [] state = COOLING -> CoolingStep(noise)
      [] OTHER -> [temp |-> current_temp, state |-> state,
                   timer |-> timer_active, emit |-> <<>>]

\* mutant of TickSignals: the temperature is emitted before the state
TickSignalsTempFirst(emit, temp) == <<TemperatureChanged(temp)>> \o emit

\* the signals of one _update_temperature call, in the order of its emit
\* calls: state_changed inside the branch, temperature_changed at the end
TickSignals(emit, temp) == emit \o <<TemperatureChanged(temp)>>

\* the effect of _update_temperature on the simulator
UpdateTemperatureSim ==
    /\ timer_active
    /\ \E noise \in Noise, noise2 \in MaintainNoise :
         LET r == TickStep(noise, noise2) IN
           /\ current_temp' = ClampCurrent(r.temp)
           /\ state' = r.state
           /\ timer_active' = r.timer
           /\ signals' = TickSignals(r.emit, current_temp')
    /\ Publish
    /\ UNCHANGED <<target_temp, is_running, estopPhase>>

\* _update_temperature, the timeout handler of the simulator's timer
UpdateTemperature ==
    /\ UpdateTemperatureSim
    /\ lastOp' = "tick"
    /\ UNCHANGED <<logVars, appVars>>

---------------------------------------------------------------------------
(* DataLogger                                                              *)

\* Bounds of the logger model: the clock runs to MaxClock, in steps of
\* 1/ClockPerSecond seconds, and a file holds at most MaxRows data rows.
MaxClock == 3
ClockPerSecond == 2
MaxRows == 2

\* datetime.now().strftime("%Y%m%d_%H%M%S") in f"log_{timestamp}.csv": the
\* name keeps the wall clock's whole seconds and drops the rest
FileName(now) == <<"log", now \div ClockPerSecond>>

\* f"{x:.2f}" of a temperature held in tenths: the value in hundredths
Format2(x) == x * 10

\* the header row written by start_logging
Header ==
    [kind |-> "header",
     cols |-> <<"timestamp", "current_temp", "target_temp", "state">>]

\* the row written by _log_data
DataRow(now, snap) ==
    [kind |-> "data",
     cols |-> <<now, Format2(snap.current_temp), Format2(snap.target_temp),
                snap.state>>]

\* open(path, 'w'): creates the file, or truncates the one of that name
OpenForWrite(files, name) ==
    [n \in (DOMAIN files) \cup {name} |-> IF n = name THEN <<>> ELSE files[n]]

\* csv.writer(handle).writerow(row): appends to the open file
WriteRow(files, name, row) ==
    [files EXCEPT ![name] = Append(@, row)]

\* (current_temp, state) pairs pushed by update_data; the target is the
\* operator's set point
SnapshotInputs ==
    { [current_temp |-> AMBIENT_TEMP, target_temp |-> DEFAULT_TARGET_TEMP,
       state |-> HEATING],
      [current_temp |-> DEFAULT_TARGET_TEMP, target_temp |-> DEFAULT_TARGET_TEMP,
       state |-> MAINTAINING] }

\* the effect of start_logging() on the logger
StartLoggingLog ==
    IF log_is_logging
    THEN UNCHANGED logVars
    ELSE LET name == FileName(clock) IN
         /\ log_file' = name
         /\ log_file_handle' = name
         /\ log_csv_writer' = name
         /\ log_open_handles' = log_open_handles + 1
         /\ fs' = WriteRow(OpenForWrite(fs, name), name, Header)
         /\ log_is_logging' = TRUE
         /\ log_timer_active' = TRUE
         /\ UNCHANGED <<log_snapshot, clock>>

\* mutant of StartLogging: the is_logging test is dropped
StartLoggingUnguarded ==
    /\ lastOp' = "start_logging"
    /\ LET name == FileName(clock) IN
       /\ log_file' = name
       /\ log_file_handle' = name
       /\ log_csv_writer' = name
       /\ log_open_handles' = log_open_handles + 1
       /\ fs' = WriteRow(OpenForWrite(fs, name), name, Header)
       /\ log_is_logging' = TRUE
       /\ log_timer_active' = TRUE
       /\ UNCHANGED <<log_snapshot, clock>>
    /\ UNCHANGED <<simVars, appVars>>

StartLogging ==
    /\ lastOp' = "start_logging"
    /\ StartLoggingLog
    /\ UNCHANGED <<simVars, appVars>>

\* the effect of stop_logging() on the logger
StopLoggingLog ==
    IF ~log_is_logging
    THEN UNCHANGED logVars
    ELSE /\ log_timer_active' = FALSE
         /\ log_is_logging' = FALSE
         /\ IF log_file_handle # None
            THEN /\ log_file_handle' = None
                 /\ log_csv_writer' = None
                 /\ log_open_handles' = log_open_handles - 1
            ELSE UNCHANGED <<log_file_handle, log_csv_writer,
                             log_open_handles>>
         /\ UNCHANGED <<log_file, log_snapshot, fs, clock>>

\* mutant of StopLogging: the timer is not stopped
StopLoggingTimerKept ==
    /\ lastOp' = "stop_logging"
    /\ IF ~log_is_logging
       THEN UNCHANGED logVars
       ELSE /\ log_is_logging' = FALSE
            /\ log_file_handle' = None
            /\ log_csv_writer' = None
            /\ log_open_handles' = log_open_handles - 1
            /\ UNCHANGED <<log_timer_active, log_file, log_snapshot, fs, clock>>
    /\ UNCHANGED <<simVars, appVars>>

StopLogging ==
    /\ lastOp' = "stop_logging"
    /\ StopLoggingLog
    /\ UNCHANGED <<simVars, appVars>>

\* the effect of update_data() on the logger
UpdateDataLog(snap) ==
    /\ log_snapshot' = snap
    /\ UNCHANGED <<log_is_logging, log_file, log_file_handle, log_csv_writer,
                   log_timer_active, log_open_handles, fs, clock>>

\* mutant of UpdateData: the new snapshot is also written out at once
UpdateDataFlushing(snap) ==
    /\ lastOp' = "update_data"
    /\ log_snapshot' = snap
    /\ IF log_csv_writer # None /\ Len(fs[log_csv_writer]) <= MaxRows
       THEN fs' = WriteRow(fs, log_csv_writer, DataRow(clock, snap))
       ELSE UNCHANGED fs
    /\ UNCHANGED <<log_is_logging, log_file, log_file_handle, log_csv_writer,
                   log_timer_active, log_open_handles, clock>>
    /\ UNCHANGED <<simVars, appVars>>

\* update_data()
UpdateData(snap) ==
    /\ lastOp' = "update_data"
    /\ UpdateDataLog(snap)
    /\ UNCHANGED <<simVars, appVars>>

\* _log_data, the timeout handler of the logger's timer. The timer runs on
\* Qt's clock and the rows and file names on the wall clock (datetime.now());
\* the code relates the two nowhere, so neither does the model.
LogData ==
    /\ log_timer_active
    /\ log_csv_writer # None => Len(fs[log_csv_writer]) <= MaxRows
    /\ lastOp' = "log_data"
    /\ IF log_csv_writer = None
       THEN UNCHANGED fs
       ELSE fs' = WriteRow(fs, log_csv_writer, DataRow(clock, log_snapshot))
    /\ UNCHANGED <<log_is_logging, log_file, log_file_handle, log_csv_writer,
                   log_timer_active, log_snapshot, log_open_handles, clock>>
    /\ UNCHANGED <<simVars, appVars>>

\* the wall clock read by datetime.now() moves on
AdvanceClock ==
    /\ clock < MaxClock
    /\ clock' = clock + 1
    /\ lastOp' = "clock"
    /\ UNCHANGED <<log_is_logging, log_file, log_file_handle, log_csv_writer,
                   log_timer_active, log_snapshot, log_open_handles, fs>>
    /\ UNCHANGED <<simVars, appVars>>

---------------------------------------------------------------------------
(* MainWindow: the handlers that drive the simulator and the logger        *)

\* Bounds of the application model: heating ticks are followed up to MaxRise
\* tenths of a degree above ambient, periodic writes until the data
\* directory holds AppMaxRows data rows, and the wall clock up to AppMaxClock.
MaxRise == 2
AppMaxRows == 1
AppMaxClock == 1

\* the data rows held by all the files together
DataRowCount(files) ==
    Cardinality({<<n, i>> \in (DOMAIN files) \X (1 .. (MaxRows + 2)) :
                   i <= Len(files[n]) /\ files[n][i].kind = "data"})

\* OperationMode (src/widgets/status_setting_panel.py)
OperationMode == {"HEATING", "PURGE", "COOLING"}

\* Set points the operator applies with the slider (whole degrees in
\* [0, 400]): one below ambient, and ambient itself
AppSetPoints == {AMBIENT_TEMP - 20, AMBIENT_TEMP}

\* _on_settings_applied: stores the set point, sets the simulator's target
\* and, if the simulator is not running, starts it and the logging
OnSettingsApplied(sp) ==
    /\ lastOp' = "settings_applied"
    /\ set_point' = sp
    /\ target_temp' = ClampTarget(sp)
    /\ IF ~is_running
       THEN /\ StartSim(target_temp')
            /\ StartLoggingLog
       ELSE /\ signals' = <<>>
            /\ Publish
            /\ UNCHANGED <<current_temp, state, is_running, timer_active,
                           estopPhase>>
            /\ UNCHANGED logVars

\* _on_mode_changed: HEATING starts the simulator, COOLING stops it
OnModeChanged(mode) ==
    /\ lastOp' = "mode_changed"
    /\ CASE mode = "HEATING" -> StartSim(target_temp) /\ UNCHANGED target_temp
         [] mode = "COOLING" -> StopSim
         [] OTHER -> /\ signals' = <<>>
                     /\ Publish
                     /\ UNCHANGED <<current_temp, target_temp, state,
                                    is_running, timer_active, estopPhase>>
    /\ UNCHANGED <<logVars, appVars>>

\* _on_save_data: toggles the logging
OnSaveData ==
    /\ lastOp' = "save_data"
    /\ IF log_is_logging THEN StopLoggingLog ELSE StartLoggingLog
    /\ UNCHANGED <<simVars, appVars>>

\* _on_stop_clear: emergency_stop(), stop_logging(), then reset(), which
\* finds the state EMERGENCY_STOP and sets it to IDLE
OnStopClear ==
    /\ lastOp' = "stop_clear"
    /\ timer_active' = FALSE
    /\ is_running' = FALSE
    /\ state' = IDLE
    /\ signals' = <<StateChanged(EMERGENCY_STOP), StateChanged(IDLE)>>
    /\ Publish
    /\ estopPhase' = "reset"
    /\ StopLoggingLog
    /\ UNCHANGED <<current_temp, target_temp>>
    /\ UNCHANGED appVars

\* a simulator tick with its slot _on_temperature_changed, which pushes the
\* emitted temperature, the set point and the simulator's state to the logger
OnTemperatureChanged ==
    /\ state = HEATING => current_temp < AMBIENT_TEMP + MaxRise
    /\ UpdateTemperatureSim
    /\ UpdateDataLog([current_temp |-> current_temp',
                      target_temp |-> set_point,
                      state |-> state'])
    /\ lastOp' = "tick"
    /\ UNCHANGED appVars

\* the logger's timer firing in the application
OnLogTimer ==
    /\ DataRowCount(fs) < AppMaxRows
    /\ LogData

\* the wall clock advancing while the application runs
AppAdvanceClock ==
    /\ clock < AppMaxClock
    /\ AdvanceClock

SimInit ==
    /\ current_temp = AMBIENT_TEMP
    /\ target_temp = DEFAULT_TARGET_TEMP
    /\ state = IDLE
    /\ is_running = FALSE
    /\ timer_active = FALSE
    /\ signals = <<>>
    /\ estopPhase = "none"
    /\ pub_state = <<>>
    /\ pub_temp = <<>>

LogInit ==
    /\ log_is_logging = FALSE
    /\ log_file = None
    /\ log_file_handle = None
    /\ log_csv_writer = None
    /\ log_timer_active = FALSE
    /\ log_snapshot = [current_temp |-> 0, target_temp |-> 0, state |-> IDLE]
    /\ log_open_handles = 0
    /\ fs = <<>>
    /\ clock = 0

\* MainWindow.__init__: the settings held by the window
AppInit ==
    set_point = DEFAULT_TARGET_TEMP

Init ==
    /\ SimInit
    /\ LogInit
    /\ AppInit
    /\ lastOp = "init"

Next ==
    \/ \E value \in TargetInputs : SetTargetTemp(value)
    \/ Start
    \/ Stop
    \/ EmergencyStop
    \/ Reset
    \/ UpdateTemperature

Spec == Init /\ [][Next]_vars

NextLogger ==
    \/ StartLogging
    \/ StopLogging
    \/ \E snap \in SnapshotInputs : UpdateData(snap)
    \/ LogData
    \/ AdvanceClock

SpecLogger == Init /\ [][NextLogger]_vars

NextApp ==
    \/ \E sp \in AppSetPoints : OnSettingsApplied(sp)
    \/ \E mode \in OperationMode : OnModeChanged(mode)
    \/ OnSaveData
    \/ OnStopClear
    \/ OnTemperatureChanged
    \/ OnLogTimer
    \/ AppAdvanceClock

SpecApp == Init /\ [][NextApp]_vars


---------------------------------------------------------------------------
(* Properties                                                              *)

\* the simulator's fields other than the signals and the history
simFields == <<current_temp, target_temp, state, is_running, timer_active>>

\* clamp(v, minTemp, maxTemp) as the specification writes it
SpecClamp(v, lo, hi) == IF v < lo THEN lo ELSE IF v > hi THEN hi ELSE v

\* C1: for every value v (below minTemp, inside the range, above maxTemp),
\* setting the target temperature to v leaves targetTemp = clamp(v, minTemp,
\* maxTemp); so minTemp <= targetTemp <= maxTemp in every reachable state.
C1_TargetClamped ==
    /\ [](MIN_TEMP <= target_temp /\ target_temp <= MAX_TEMP)
    /\ [][\A v \in TargetInputs :
            SetTargetTemp(v) => target_temp' = SpecClamp(v, MIN_TEMP, MAX_TEMP)]_vars

\* a value above maxTemp has been set and was clamped to maxTemp
C1_Witness ==
    /\ lastOp = "set_target_temp"
    /\ target_temp = MAX_TEMP

\* C2: emergencyStop() sets state = EmergencyStopped and isRunning = false and
\* halts the tick source; after it no tick changes currentTemp until reset()
\* and then start() have been called.
C2_EmergencyStopHalts ==
    [][/\ lastOp' = "emergency_stop" =>
            state' = EMERGENCY_STOP /\ ~is_running' /\ ~timer_active'
       /\ (lastOp' = "tick" /\ estopPhase # "none") =>
            current_temp' = current_temp]_vars

\* C3: once state is EmergencyStopped, no tick and no operation other than
\* reset() moves state out of EmergencyStopped, and reset() moves it to Idle.
C3_EmergencyStopTerminal ==
    [][state = EMERGENCY_STOP =>
         IF lastOp' = "reset" THEN state' = IDLE
         ELSE state' = EMERGENCY_STOP]_vars

\* C4: reset() in any state other than EmergencyStopped changes none of
\* state, currentTemp, targetTemp, isRunning, tick source and publishes
\* nothing; in EmergencyStopped it sets state = Idle, publishes it, and
\* changes nothing else.
C4_ResetFrame ==
    [][lastOp' = "reset" =>
         IF state # EMERGENCY_STOP
         THEN UNCHANGED simFields /\ signals' = <<>>
         ELSE /\ state' = IDLE
              /\ signals' = <<StateChanged(IDLE)>>
              /\ UNCHANGED <<current_temp, target_temp, is_running,
                             timer_active>>]_vars

\* reset() was called while running and maintaining, and did nothing
C4_Witness ==
    /\ lastOp = "reset"
    /\ state = MAINTAINING
    /\ is_running
    /\ signals = <<>>

\* C5: start() in EmergencyStopped changes nothing and publishes nothing; in
\* any other state it sets isRunning, activates the tick source and sets state
\* to Maintaining if |currentTemp - targetTemp| < 0.5, else Heating if
\* currentTemp < targetTemp, else Cooling; never Idle.
C5_StartRule ==
    [][lastOp' = "start" =>
         IF state = EMERGENCY_STOP
         THEN UNCHANGED simFields /\ signals' = <<>>
         ELSE /\ is_running'
              /\ timer_active'
              /\ state' = (IF Abs(current_temp - target_temp) < 5
                           THEN MAINTAINING
                           ELSE IF current_temp < target_temp THEN HEATING
                           ELSE COOLING)
              /\ state' # IDLE]_vars

\* start() chose Heating with the gap exactly at the edge of the band
C5_Witness ==
    /\ lastOp = "start"
    /\ state = HEATING
    /\ target_temp - current_temp = 5

\* C6: start() from Idle with targetTemp - currentTemp > 0.5 gives Heating;
\* every tick in Heating increases currentTemp while the gap exceeds 0.5; the
\* first tick that finds the gap <= 0.5 sets Maintaining; every further tick
\* leaves the state Maintaining.
C6_HeatThenMaintain ==
    [][/\ (lastOp' = "start" /\ state = IDLE
             /\ target_temp - current_temp > 5) => state' = HEATING
       /\ (lastOp' = "tick" /\ state = HEATING
             /\ target_temp - current_temp > 5) =>
            (current_temp' > current_temp /\ state' = HEATING)
       /\ (lastOp' = "tick" /\ state = HEATING
             /\ target_temp - current_temp <= 5) => state' = MAINTAINING
       /\ (lastOp' = "tick" /\ state = MAINTAINING) =>
            state' = MAINTAINING]_vars

\* the tick that found the gap closed has just moved Heating to Maintaining,
\* on the ramp from ambient to the default target
C6_Witness ==
    /\ lastOp = "tick"
    /\ state = MAINTAINING
    /\ signals = <<StateChanged(MAINTAINING), TemperatureChanged(current_temp)>>
    /\ target_temp = DEFAULT_TARGET_TEMP
    /\ target_temp - current_temp \in 0 .. 5

\* what C7 and its amendment share: stop() gives Cooling, a cooling tick above
\* ambient + 0.5 keeps Cooling, and one at or below it snaps to ambient, goes
\* Idle and halts the tick source
CoolingRun ==
    /\ lastOp' = "stop" => state' = COOLING
    /\ (lastOp' = "tick" /\ state = COOLING
          /\ current_temp > AMBIENT_TEMP + 5) => state' = COOLING
    /\ (lastOp' = "tick" /\ state = COOLING
          /\ current_temp <= AMBIENT_TEMP + 5) =>
         (current_temp' = AMBIENT_TEMP /\ state' = IDLE /\ ~timer_active')

\* C7 as claimed: after stop(), every cooling tick STRICTLY decreases
\* currentTemp, for every noise value in [-0.1, 0.1] including the endpoints,
\* until it equals ambientTemp, when state becomes Idle and ticking halts.
C7_StrictCooling ==
    [][/\ CoolingRun
       /\ (lastOp' = "tick" /\ state = COOLING
             /\ current_temp > AMBIENT_TEMP + 5) =>
            current_temp' < current_temp]_vars

\* C7 amended: every cooling tick above ambient + 0.5 lowers currentTemp by
\* coolingRate * dt + noise, an amount from 0 to 0.2: currentTemp never rises,
\* and the tick whose noise is -0.1 leaves it unchanged.
C7_NonIncreasingCooling ==
    [][/\ CoolingRun
       /\ (lastOp' = "tick" /\ state = COOLING
             /\ current_temp > AMBIENT_TEMP + 5) =>
            (current_temp - current_temp') \in
               {PerTick(COOLING_RATE) + n : n \in Noise}]_vars

\* a cooling tick has run after stop(), at 200 degrees or more
C7_Witness ==
    /\ lastOp = "tick"
    /\ state = COOLING
    /\ ~is_running
    /\ current_temp >= 2000

\* C8: a tick in Cooling with currentTemp <= ambientTemp + 0.5 sets
\* currentTemp = ambientTemp and state = Idle, publishes the state and halts
\* the tick source; ticks fire only while the tick source is active, and only
\* start() activates it.
C8_SnapToAmbient ==
    [][/\ (lastOp' = "tick" /\ state = COOLING
             /\ current_temp <= AMBIENT_TEMP + 5) =>
            /\ current_temp' = AMBIENT_TEMP
            /\ state' = IDLE
            /\ ~timer_active'
            /\ signals'[1] = StateChanged(IDLE)
       /\ lastOp' = "tick" => timer_active
       /\ (~timer_active /\ timer_active') => lastOp' = "start"]_vars

\* the snapping tick has run: Idle at ambient, published, tick source halted
C8_Witness ==
    /\ lastOp = "tick"
    /\ state = IDLE
    /\ current_temp = AMBIENT_TEMP
    /\ ~timer_active
    /\ Len(signals) = 2

\* C9: in every reachable state ambientTemp - 1 <= currentTemp <= maxTemp.
C9_CurrentBounded ==
    /\ AMBIENT_TEMP - 10 <= current_temp
    /\ current_temp <= MAX_TEMP

\* a maintaining tick at a target below ambient - 1 was clamped to the floor
C9_Witness ==
    /\ lastOp = "tick"
    /\ state = MAINTAINING
    /\ target_temp = MIN_TEMP
    /\ current_temp = AMBIENT_TEMP - 10

\* every file holds the header exactly once, as its first row
HeaderOnce ==
    \A n \in DOMAIN fs :
        /\ Len(fs[n]) >= 1
        /\ fs[n][1].kind = "header"
        /\ \A i \in 2 .. Len(fs[n]) : fs[n][i].kind # "header"

\* C10: startLogging() while a session is open is a no-op: no file is
\* created, no header written, the open file, its rows and the write timer
\* are unchanged; each session's file holds the header exactly once, first.
C10_StartLoggingOnce ==
    /\ []HeaderOnce
    /\ [][(lastOp' = "start_logging" /\ log_is_logging) =>
            UNCHANGED logVars]_vars

\* startLogging() was called on a session that already held data rows
C10_Witness ==
    /\ lastOp = "start_logging"
    /\ log_is_logging
    /\ Len(fs[log_file]) > 1

\* C11: stopLogging() halts the periodic writer and closes the file, and is a
\* no-op when not logging; while no session is open no operation but a new
\* startLogging() changes any file (no periodic write and no updateData adds
\* a row to the closed session's file).
C11_NoWriteAfterStop ==
    [][/\ lastOp' = "stop_logging" =>
            /\ ~log_is_logging'
            /\ ~log_timer_active'
            /\ log_file_handle' = None
            /\ fs' = fs
       /\ (lastOp' = "stop_logging" /\ ~log_is_logging) => UNCHANGED logVars
       /\ (~log_is_logging /\ lastOp' # "start_logging") => fs' = fs]_vars

\* a session that holds data rows was closed, and updateData ran after it
C11_Witness ==
    /\ lastOp = "update_data"
    /\ ~log_is_logging
    /\ log_file # None
    /\ Len(fs[log_file]) > 1

\* C12: emergencyStop() when state is already EmergencyStopped is a no-op:
\* state, isRunning, currentTemp, targetTemp and the tick source are unchanged
\* and no further stateChanged notification is published.
C12_EmergencyStopIdempotent ==
    [][(lastOp' = "emergency_stop" /\ state = EMERGENCY_STOP) =>
         (UNCHANGED simFields /\ signals' = <<>>)]_vars

\* C13: at most one file handle is open at any time, and it is the logger's;
\* a handle is opened only by startLogging() when none is open, and closed
\* only by stopLogging().
C13_OneSession ==
    /\ [](/\ log_open_handles <= 1
          /\ (log_open_handles = 1) = (log_file_handle # None))
    /\ [][/\ log_open_handles' > log_open_handles =>
               (lastOp' = "start_logging" /\ log_open_handles = 0)
          /\ log_open_handles' < log_open_handles =>
               lastOp' = "stop_logging"]_vars

\* a second session was opened after the first one was closed
C13_Witness ==
    /\ lastOp = "start_logging"
    /\ log_open_handles = 1
    /\ Cardinality(DOMAIN fs) = 2

\* rows a and b are the same row
SameRow(a, b) == a.kind = b.kind /\ a.cols = b.cols

\* C14: rows are append-only: every file keeps the rows it has, in place,
\* under every later logger operation.
C14_AppendOnly ==
    [][\A n \in DOMAIN fs :
         /\ n \in DOMAIN fs'
         /\ Len(fs'[n]) >= Len(fs[n])
         /\ \A i \in 1 .. Len(fs[n]) : SameRow(fs'[n][i], fs[n][i])]_vars

\* the values of the row the periodic write has just appended
LastRow == fs'[log_csv_writer][Len(fs'[log_csv_writer])].cols

\* C15: every row of the periodic write carries the simulator's most recently
\* published values: once a temperature and a state have been published, the
\* row's current_temp, target_temp and state are the simulator's currentTemp
\* as last published, its targetTemp and its state as last published.
C15_RowsCarryPublished ==
    [][(lastOp' = "log_data" /\ log_csv_writer # None
          /\ pub_temp # <<>> /\ pub_state # <<>>) =>
         /\ LastRow[2] = Format2(pub_temp[1])
         /\ LastRow[3] = Format2(target_temp)
         /\ LastRow[4] = pub_state[1]]_vars

\* C16: every change of state publishes state_changed carrying the new state,
\* so the last published state, once there is one, is the current state.
C16_StateChangePublished ==
    /\ [](pub_state # <<>> => pub_state = <<state>>)
    /\ [][state' # state =>
            /\ \E i \in 1 .. Len(signals') : signals'[i] = StateChanged(state')
            /\ pub_state' = <<state'>>]_vars

\* a tick has moved Heating to Maintaining at the top of the range, published
C16_Witness ==
    /\ lastOp = "tick"
    /\ state = MAINTAINING
    /\ target_temp = MAX_TEMP
    /\ Len(signals) = 2
    /\ pub_state = <<MAINTAINING>>

\* a tick that changes both currentTemp and state
TickChangesBoth ==
    /\ lastOp' = "tick"
    /\ state' # state
    /\ current_temp' # current_temp

\* C17 as claimed: in a tick in which both currentTemp and state change,
\* temperatureChanged is delivered before stateChanged.
C17_TemperatureThenState ==
    [][TickChangesBoth =>
         /\ Len(signals') = 2
         /\ signals'[1].sig = "temperature_changed"
         /\ signals'[2].sig = "state_changed"]_vars

\* C17 amended: in such a tick stateChanged (with the new state) is delivered
\* first and temperatureChanged (with the new temperature) after it.
C17_StateThenTemperature ==
    [][TickChangesBoth =>
         /\ Len(signals') = 2
         /\ signals'[1].sig = "state_changed"
         /\ signals'[1].arg = state'
         /\ signals'[2].sig = "temperature_changed"
         /\ signals'[2].arg = current_temp']_vars

\* the cooling tick that snapped 25.5 degrees or less to ambient has run from
\* a temperature other than ambient (after a stop() while maintaining 100.0)
C17_Witness ==
    /\ lastOp = "tick"
    /\ state = IDLE
    /\ Len(signals) = 2
    /\ pub_temp = <<AMBIENT_TEMP>>
    /\ target_temp = DEFAULT_TARGET_TEMP
    /\ ~is_running

\* C18: setTargetTemp(v) changes only targetTemp: state, currentTemp,
\* isRunning and the tick source are unchanged and nothing is published, in
\* every state; and nothing else changes targetTemp.
C18_SetTargetFrame ==
    [][/\ lastOp' = "set_target_temp" =>
            /\ UNCHANGED <<current_temp, state, is_running, timer_active>>
            /\ signals' = <<>>
            /\ UNCHANGED <<pub_state, pub_temp>>
       /\ target_temp' # target_temp => lastOp' = "set_target_temp"]_vars

\* the target was set (and clamped to minTemp) while EmergencyStopped
C18_Witness ==
    /\ lastOp = "set_target_temp"
    /\ state = EMERGENCY_STOP
    /\ target_temp = MIN_TEMP

\* C19 as claimed: after every tick taken in Maintaining,
\* |currentTemp - targetTemp| <= 0.3, for every targetTemp in the range.
C19_MaintainWithinNoise ==
    [][(lastOp' = "tick" /\ state = MAINTAINING) =>
         Abs(current_temp' - target_temp') <= 3]_vars

\* C19 amended: after every tick taken in Maintaining, currentTemp is
\* targetTemp plus a noise term in [-0.3, 0.3], clamped into
\* [ambientTemp - 1, maxTemp]; so |currentTemp - targetTemp| <= 0.3 for every
\* targetTemp in [ambientTemp - 1, maxTemp], and currentTemp = ambientTemp - 1
\* for a targetTemp below ambientTemp - 1.3.
C19_MaintainClamped ==
    [][(lastOp' = "tick" /\ state = MAINTAINING) =>
         /\ \E n \in -3 .. 3 :
              current_temp' =
                 SpecClamp(target_temp + n, AMBIENT_TEMP - 10, MAX_TEMP)
         /\ target_temp >= AMBIENT_TEMP - 10 =>
              Abs(current_temp' - target_temp) <= 3
         /\ target_temp < AMBIENT_TEMP - 13 =>
              current_temp' = AMBIENT_TEMP - 10]_vars

\* a maintaining tick has run at the lowest target the band still reaches
C19_Witness ==
    /\ lastOp = "tick"
    /\ state = MAINTAINING
    /\ target_temp = AMBIENT_TEMP - 10
    /\ current_temp = target_temp + 3

\* C20 as claimed: once state is Maintaining, only stop() and emergencyStop()
\* change it; ticks, setTargetTemp and a repeated start() leave it Maintaining.
C20_MaintainingSticky ==
    [][(state = MAINTAINING /\ lastOp' \notin {"stop", "emergency_stop"}) =>
         state' = MAINTAINING]_vars

\* C20 amended: once state is Maintaining, ticks, setTargetTemp and reset()
\* leave it Maintaining; a repeated start() leaves it Maintaining only while
\* |currentTemp - targetTemp| < 0.5 and otherwise (after targetTemp was
\* changed) re-selects Heating or Cooling; stop() gives Cooling and
\* emergencyStop() EmergencyStopped.
C20_MaintainingUntilRestart ==
    [][state = MAINTAINING =>
         /\ lastOp' \in {"tick", "set_target_temp", "reset"} =>
              state' = MAINTAINING
         /\ lastOp' = "start" =>
              state' = (IF Abs(current_temp - target_temp) < 5
                        THEN MAINTAINING
                        ELSE IF current_temp < target_temp THEN HEATING
                        ELSE COOLING)
         /\ lastOp' = "stop" => state' = COOLING
         /\ lastOp' = "emergency_stop" => state' = EMERGENCY_STOP]_vars

\* the target was moved away while maintaining, and the state stayed
C20_Witness ==
    /\ lastOp = "set_target_temp"
    /\ state = MAINTAINING
    /\ target_temp = MAX_TEMP
    /\ current_temp < DEFAULT_TARGET_TEMP + 5

\* C21: stop() in any state sets isRunning = false and state = Cooling and
\* the tick source is active afterwards, so that the cooling ticks run; a
\* Cooling tick taken at or below ambient + 0.5 ends in Idle at once.
C21_StopKeepsTicking ==
    [][/\ lastOp' = "stop" =>
            /\ ~is_running'
            /\ state' = COOLING
            /\ timer_active'
       /\ (lastOp' = "tick" /\ state = COOLING
             /\ current_temp <= AMBIENT_TEMP + 5) => state' = IDLE]_vars

\* C22: in every reachable state, isRunning implies that the tick source is
\* active and that state is not Idle.
C22_RunningImpliesTicking ==
    is_running => (timer_active /\ state # IDLE)

\* C23: when the Apply-settings handler returns and state is not
\* EmergencyStopped, the simulator's tick source is active.
C23_ApplyStartsTicking ==
    [][(lastOp' = "settings_applied" /\ state' # EMERGENCY_STOP) =>
         timer_active']_vars

\* C24: in every reachable state, state in {Heating, Maintaining} implies
\* isRunning and an active tick source.
C24_HeatingIsRunning ==
    state \in {HEATING, MAINTAINING} => (is_running /\ timer_active)

\* a tick has moved Heating to Maintaining while running
C24_Witness ==
    /\ lastOp = "tick"
    /\ state = MAINTAINING
    /\ Len(signals) = 2
    /\ is_running
    /\ timer_active

\* C25: in every reachable state, state in {Idle, EmergencyStopped} implies
\* that the tick source is halted, and EmergencyStopped implies not isRunning.
C25_IdleIsHalted ==
    /\ state \in {IDLE, EMERGENCY_STOP} => ~timer_active
    /\ state = EMERGENCY_STOP => ~is_running

\* emergency_stop() has halted a simulator that had been heating
C25_Witness ==
    /\ lastOp = "emergency_stop"
    /\ state = EMERGENCY_STOP
    /\ current_temp > AMBIENT_TEMP + 10
    /\ ~timer_active

\* C26: in every reachable state is_logging holds exactly when a file handle
\* is open, exactly when a CSV writer exists and exactly when the write timer
\* is active; and updateData changes only the snapshot: no row is written,
\* and is_logging, the file and the timer are unchanged.
C26_LoggerConsistent ==
    /\ [](/\ log_is_logging = (log_file_handle # None)
          /\ log_is_logging = (log_csv_writer # None)
          /\ log_is_logging = log_timer_active)
    /\ [][lastOp' = "update_data" =>
            UNCHANGED <<log_is_logging, log_file, log_file_handle,
                        log_csv_writer, log_timer_active, log_open_handles,
                        fs>>]_vars

\* updateData ran during a session that has already written a data row
C26_Witness ==
    /\ lastOp = "update_data"
    /\ log_is_logging
    /\ log_timer_active
    /\ log_csv_writer # None
    /\ Len(fs[log_csv_writer]) > 1
    /\ log_snapshot.state = MAINTAINING

=============================================================================
